---- MODULE Spec2Model ----
(***************************************************************************)
(* Model of wolfkrow's SequenceTask (src/wolfkrow/core/tasks/              *)
(* sequence_task.py): validate, __call__, export_to_command_line and       *)
(* export_to_python_script, acting on one task instance.                   *)
(*                                                                         *)
(* Strings that the code builds with str.format are kept as strings        *)
(* (names) or as the sequence of their space-separated words (commands):   *)
(* the command is the words joined by single spaces, an empty word         *)
(* standing for two adjacent spaces.                                       *)
(***************************************************************************)
EXTENDS Integers, Sequences, FiniteSets, TLC

VARIABLES
    start_frame,    \* self.start_frame
    end_frame,      \* self.end_frame
    chunk_size,     \* self.chunk_size
    name,           \* self.name
    temp_dir,       \* self.temp_dir
    pc,             \* position of the caller: idle, call_loop, py_loop, returned, raised
    op,             \* the operation in progress or last finished
    exc,            \* kind of the exception that left the operation, or NoExc
    l_start_frame,  \* export_to_python_script: local start_frame
    l_end_frame,    \* export_to_python_script: local end_frame
    l_name,         \* export_to_python_script: local name
    tasks,          \* export_to_python_script: local tasks (the returned list)
    command,        \* export_to_command_line: the command of the returned tuple
    n_commands,     \* export_to_command_line: number of commands returned
    deadline,       \* export_to_command_line: the deadline argument
    arg_temp_dir,   \* export_to_command_line: the temp_dir argument
    frame,          \* __call__: loop variable
    success,        \* __call__: local success
    failed_frames,  \* __call__: local failed_frames
    result,         \* __call__: returned value
    setup_done,     \* __call__: setup() has been called
    ran,            \* history: frames run(frame) was invoked for, in order
    outcomes,       \* history: outcome of each of those run calls
    pre,            \* history: the instance's fields when the operation began
    c_pc,           \* concurrent callers: the line each caller is at
    c_local,        \* concurrent callers: each caller's local variables
    overlapped,     \* history: a caller entered while another was inside
    running,        \* concurrent callers: the caller that took the last step
    switches        \* concurrent callers: preemptions so far

vars == <<start_frame, end_frame, chunk_size, name, temp_dir, pc, op, exc,
          l_start_frame, l_end_frame, l_name, tasks, command, n_commands, deadline,
          arg_temp_dir,
          frame, success, failed_frames, result, setup_done, ran, outcomes, pre,
          c_pc, c_local, overlapped, running, switches>>

fields == <<start_frame, end_frame, chunk_size, name, temp_dir>>
pyLocals == <<l_start_frame, l_end_frame, l_name, tasks>>
cmdLocals == <<command, n_commands, deadline, arg_temp_dir>>
callLocals == <<frame, success, failed_frames, result, setup_done, ran, outcomes>>
conc == <<c_pc, c_local, overlapped, running, switches>>

(***************************************************************************)
(* Bounds of the model.                                                    *)
(***************************************************************************)
MaxFrame == 4          \* largest frame number constructed
NegFrames == 1         \* how many negative frame numbers are constructed
MaxChunk == 3          \* largest chunk_size constructed
NegChunks == 1         \* how many negative chunk sizes are constructed
MaxTasks == 6          \* cap on the chunks of a loop that never ends

Frames == (0 - NegFrames)..MaxFrame
ChunkSizes == (0 - NegChunks)..MaxChunk

NoneValue == "None"                 \* Python's None for a string attribute
NoExc == "none"
TempDirs == {NoneValue, "", "./test_temp", "./other_temp"}
JobName == "test_export"
TaskName == "Task1"

Min(a, b) == IF a < b THEN a ELSE b

\* ceil(a / b) for a >= 0, b > 0
CeilDiv(a, b) == (a + b - 1) \div b

\* The threads that may call export_to_python_script on the one instance.
Callers == {1, 2}

\* The locals of export_to_python_script before line 174; r_start, r_end
\* and r_chunk hold the attribute values a statement has read from the
\* instance and not yet used.
NoLocals == [start_frame |-> 0, end_frame |-> 0, name |-> "",
             frame_str |-> "", tasks |-> <<>>,
             r_start |-> 0, r_end |-> 0, r_chunk |-> 0]

\* No concurrent caller has entered.
ConcIdle ==
    /\ c_pc = [c \in Callers |-> "idle"]
    /\ c_local = [c \in Callers |-> NoLocals]
    /\ overlapped = FALSE
    /\ running = 0
    /\ switches = 0

\* The instance's fields as one record.
Self == [start_frame |-> start_frame, end_frame |-> end_frame,
         chunk_size |-> chunk_size, name |-> name, temp_dir |-> temp_dir]

(***************************************************************************)
(* Construction: the SequenceTask constructor stores what it is given;     *)
(* nothing is validated until validate() is called.                        *)
(***************************************************************************)
Init ==
    /\ start_frame \in Frames
    /\ end_frame \in Frames
    /\ chunk_size \in ChunkSizes
    /\ name = TaskName
    /\ temp_dir \in TempDirs
    /\ pc = "idle"
    /\ op = "none"
    /\ exc = NoExc
    /\ l_start_frame = 0 /\ l_end_frame = 0 /\ l_name = "" /\ tasks = <<>>
    /\ command = <<>> /\ n_commands = 0 /\ deadline = FALSE
    /\ arg_temp_dir = NoneValue
    /\ frame = 0 /\ success = 0 /\ failed_frames = <<>> /\ result = 0
    /\ setup_done = FALSE /\ ran = <<>> /\ outcomes = <<>>
    /\ pre = Self
    /\ ConcIdle

\* The caller starts operation o on the idle instance.
Begin(o) ==
    /\ pc = "idle"
    /\ op' = o
    /\ pre' = Self

(***************************************************************************)
(* validate()                                                              *)
(***************************************************************************)

\* str.format: a template with named replacement fields looks each of them
\* up in the keyword arguments; a field that is not there raises KeyError.
FormatRaises(template_fields, kwarg_names) ==
    \E f \in template_fields : f \notin kwarg_names

\* Task.validate: every required attribute resolves to a non-null value.
TaskValidateOK(t) == t.name # NoneValue

\* The exception validate() leaves with, or NoExc when it returns.
ValidateOutcome(t) ==
    IF ~TaskValidateOK(t) THEN "TaskValidationException"
    ELSE IF t.chunk_size < 0 THEN "TaskValidationException"
    ELSE IF t.end_frame < t.start_frame THEN
        IF FormatRaises({"start_frame", "end_frame"}, {})
        THEN "KeyError" ELSE "TaskValidationException"
    ELSE IF t.end_frame < 0 \/ t.start_frame < 0 THEN
        IF FormatRaises({"start_frame", "end_frame"}, {})
        THEN "KeyError" ELSE "TaskValidationException"
    ELSE NoExc

Validate ==
    /\ UNCHANGED conc
    /\ Begin("validate")
    /\ exc' = ValidateOutcome(Self)
    /\ pc' = IF exc' = NoExc THEN "returned" ELSE "raised"
    /\ UNCHANGED <<fields, pyLocals, cmdLocals, callLocals>>

(***************************************************************************)
(* __call__()                                                              *)
(***************************************************************************)

\* What one run(frame) call can do: return a status, or raise an Exception.
RunValues == {0, 1, 2}
RunOutcomes == {[raised |-> TRUE, value |-> 0]}
               \cup {[raised |-> FALSE, value |-> v] : v \in RunValues}

\* The test of line 77 on the value run returned.
RunFailedOnlyOne(v) == v = 1
RunFailed(v) == v # 0

CallBeginSkipsFirst ==
    /\ UNCHANGED conc
    /\ Begin("call")
    /\ setup_done' = TRUE
    /\ failed_frames' = <<>>
    /\ success' = 0
    /\ frame' = start_frame + 1
    /\ pc' = "call_loop"
    /\ UNCHANGED <<fields, exc, pyLocals, cmdLocals, result, ran, outcomes>>

\* Lines 71-75: setup(), the two locals, and the first value of the range.
CallBegin ==
    /\ UNCHANGED conc
    /\ Begin("call")
    /\ setup_done' = TRUE
    /\ failed_frames' = <<>>
    /\ success' = 0
    /\ frame' = start_frame
    /\ pc' = "call_loop"
    /\ UNCHANGED <<fields, exc, pyLocals, cmdLocals, result, ran, outcomes>>

CallFrameStopsAtFailure ==
    /\ UNCHANGED conc
    /\ pc = "call_loop"
    /\ frame <= end_frame
    /\ \E o \in RunOutcomes :
        /\ ran' = Append(ran, frame)
        /\ outcomes' = Append(outcomes, o)
        /\ IF o.raised
           THEN /\ result' = 1
                /\ pc' = "returned"
                /\ UNCHANGED <<frame, success, failed_frames>>
           ELSE /\ IF RunFailed(o.value)
                   THEN /\ success' = 1
                        /\ failed_frames' = Append(failed_frames, frame)
                   ELSE UNCHANGED <<success, failed_frames>>
                /\ frame' = frame + 1
                /\ IF RunFailed(o.value)
                   THEN result' = 1 /\ pc' = "returned"
                   ELSE UNCHANGED <<result, pc>>
    /\ UNCHANGED <<fields, op, exc, pyLocals, cmdLocals, setup_done, pre>>

CallFramePropagates ==
    /\ UNCHANGED conc
    /\ pc = "call_loop"
    /\ frame <= end_frame
    /\ \E o \in RunOutcomes :
        /\ ran' = Append(ran, frame)
        /\ outcomes' = Append(outcomes, o)
        /\ IF o.raised
           THEN /\ pc' = "raised"
                /\ UNCHANGED <<result, frame, success, failed_frames>>
           ELSE /\ IF RunFailed(o.value)
                   THEN /\ success' = 1
                        /\ failed_frames' = Append(failed_frames, frame)
                   ELSE UNCHANGED <<success, failed_frames>>
                /\ frame' = frame + 1
                /\ UNCHANGED <<result, pc>>
    /\ UNCHANGED <<fields, op, exc, pyLocals, cmdLocals, setup_done, pre>>

\* Lines 76-79, and 80-83 when run raises: one iteration of the loop.
CallFrame ==
    /\ UNCHANGED conc
    /\ pc = "call_loop"
    /\ frame <= end_frame
    /\ \E o \in RunOutcomes :
        /\ ran' = Append(ran, frame)
        /\ outcomes' = Append(outcomes, o)
        /\ IF o.raised
           THEN /\ result' = 1
                /\ pc' = "returned"
                /\ UNCHANGED <<frame, success, failed_frames>>
           ELSE /\ IF RunFailed(o.value)
                   THEN /\ success' = 1
                        /\ failed_frames' = Append(failed_frames, frame)
                   ELSE UNCHANGED <<success, failed_frames>>
                /\ frame' = frame + 1
                /\ UNCHANGED <<result, pc>>
    /\ UNCHANGED <<fields, op, exc, pyLocals, cmdLocals, setup_done, pre>>

\* Lines 85-92: the range is exhausted.
CallEnd ==
    /\ UNCHANGED conc
    /\ pc = "call_loop"
    /\ frame > end_frame
    /\ result' = success
    /\ pc' = "returned"
    /\ UNCHANGED <<fields, op, exc, pyLocals, cmdLocals, frame, success,
                   failed_frames, setup_done, ran, outcomes, pre>>

(***************************************************************************)
(* export_to_command_line(temp_dir, deadline)                              *)
(***************************************************************************)
CommandLineExecutable == "test"
CommandLineExecutableArgs == ""        \* None: rendered as "" by line 143
TaskTypeName == "SequenceTask"

\* Task's own serialized attributes, then those SequenceTask declares.
TaskBaseAttributes == <<"name", "temp_dir">>
SequenceTaskAttributes == <<"start_frame", "end_frame", "chunk_size">>
task_attributes == TaskBaseAttributes \o SequenceTaskAttributes

\* repr() of an int and of a str without quotes in it.
ReprInt(n) == ToString(n)
ReprStrBare(s) == s
ReprStr(s) == "'" \o s \o "'"

\* Line 123: the attribute's value is None.
ValueIsNone(t, a) ==
    \/ a = "name" /\ t.name = NoneValue
    \/ a = "temp_dir" /\ t.temp_dir = NoneValue

AttrReprNoEndToken(t, a, dl) ==
    IF dl /\ a = "start_frame" THEN ReprStr("<STARTFRAME>")
    ELSE IF a = "start_frame" THEN ReprInt(t.start_frame)
    ELSE IF a = "end_frame" THEN ReprInt(t.end_frame)
    ELSE IF a = "chunk_size" THEN ReprInt(t.chunk_size)
    ELSE IF a = "name" THEN ReprStr(t.name)
    ELSE ReprStr(t.temp_dir)

\* Lines 125-138: the text the attribute contributes as its value.
AttrRepr(t, a, dl) ==
    IF dl /\ a = "start_frame" THEN ReprStr("<STARTFRAME>")
    ELSE IF dl /\ a = "end_frame" THEN ReprStr("<ENDFRAME>")
    ELSE IF a = "start_frame" THEN ReprInt(t.start_frame)
    ELSE IF a = "end_frame" THEN ReprInt(t.end_frame)
    ELSE IF a = "chunk_size" THEN ReprInt(t.chunk_size)
    ELSE IF a = "name" THEN ReprStr(t.name)
    ELSE ReprStr(t.temp_dir)

\* Lines 117-139: arg_str after the first k attributes, as words; "" is
\* the one empty word, and each attribute appends " --name value".
RECURSIVE ArgStr(_, _, _)
ArgStr(t, k, dl) ==
    IF k = 0 THEN <<"">>
    ELSE LET a == task_attributes[k]
             before == ArgStr(t, k - 1, dl)
         IN IF ValueIsNone(t, a) THEN before
            ELSE before \o <<"--" \o a, AttrRepr(t, a, dl)>>

\* Lines 141-146: the command, as words.
Command(t, dl) ==
    <<CommandLineExecutable, CommandLineExecutableArgs, "--task_name", TaskTypeName>>
    \o ArgStr(t, Len(task_attributes), dl)

\* Line 114, not self.temp_dir: None and the empty string are false.
Falsy(s) == s \in {NoneValue, ""}

\* Lines 114-115: self.temp_dir after the method took its argument td.
TempDirOverwritten(current, td) == td
TempDirAfter(current, td) == IF Falsy(current) THEN td ELSE current

\* Lines 114-148: the whole method; it returns the one pair (self, command).
ExportToCommandLine ==
    /\ UNCHANGED conc
    /\ Begin("export_cmd")
    /\ \E td \in TempDirs, dl \in BOOLEAN :
        /\ deadline' = dl
        /\ arg_temp_dir' = td
        /\ temp_dir' = TempDirAfter(temp_dir, td)
        /\ command' = Command([Self EXCEPT !.temp_dir = temp_dir'], dl)
        /\ n_commands' = 1
    /\ pc' = "returned"
    /\ UNCHANGED <<start_frame, end_frame, chunk_size, name, exc, pyLocals,
                   callLocals>>

(***************************************************************************)
(* export_to_python_script(job_name, temp_dir)                             *)
(***************************************************************************)

\* Task.copy: a new task with the same attribute values.
Copy(t) == t

\* Task.export_to_python_script: one script for the task it is given, named
\* from the job name and the task's name.
TaskExport(t) ==
    [name |-> t.name, start_frame |-> t.start_frame, end_frame |-> t.end_frame,
     chunk_size |-> t.chunk_size,
     script |-> JobName \o "_" \o t.name \o ".py"]

\* Line 180: the loop goes on while the cursor is before the last frame.
MoreChunksStrict(cursor, last) == cursor < last - 1
MoreChunksInclusive(cursor, last) == cursor <= last
MoreChunks(cursor, last) == cursor < last

\* Line 183: the end of the chunk that starts at s.
ChunkEndNoClamp(s, size, last) == s + size - 1
ChunkEndOffByOne(s, size, last) == Min(s + size, last)
ChunkEnd(s, size, last) == Min(s + size - 1, last)

\* Lines 186-187: the chunk's name.
ChunkName(n, s, e) == n \o "_" \o ToString(s) \o "-" \o ToString(e)

\* Line 171: a chunk_size of 0 asks for no chunking.
NoChunkingNegative(size) == size < 0
NoChunking(size) == size = 0

\* Lines 171-179: the unchunked export, or the locals and the cursor.
ExportPyBegin ==
    /\ UNCHANGED conc
    /\ Begin("export_py")
    /\ IF NoChunking(chunk_size)
       THEN \E ok \in BOOLEAN :
            /\ tasks' = IF ok THEN <<TaskExport(Self)>> ELSE <<>>
            /\ pc' = IF ok THEN "returned" ELSE "raised"
            /\ exc' = IF ok THEN NoExc ELSE "ExportError"
            /\ UNCHANGED <<fields, l_start_frame, l_end_frame, l_name>>
       ELSE /\ tasks' = <<>>
            /\ l_start_frame' = start_frame
            /\ l_end_frame' = end_frame
            /\ l_name' = name
            /\ end_frame' = start_frame - 1
            /\ pc' = "py_loop"
            /\ UNCHANGED <<start_frame, chunk_size, name, temp_dir, exc>>
    /\ UNCHANGED <<cmdLocals, callLocals>>

ExportPyChunkNameFromSelf ==
    /\ UNCHANGED conc
    /\ pc = "py_loop"
    /\ MoreChunks(end_frame, l_end_frame)
    /\ chunk_size > 0 \/ Len(tasks) < MaxTasks
    /\ start_frame' = end_frame + 1
    /\ end_frame' = ChunkEnd(start_frame', chunk_size, l_end_frame)
    /\ name' = ChunkName(name, start_frame', end_frame')
    /\ \E ok \in BOOLEAN :
        IF ok
        THEN /\ tasks' = Append(tasks, TaskExport(Copy(
                    [Self EXCEPT !.start_frame = start_frame',
                                 !.end_frame = end_frame',
                                 !.name = name'])))
             /\ UNCHANGED <<pc, exc>>
        ELSE /\ pc' = "raised"
             /\ exc' = "ExportError"
             /\ UNCHANGED tasks
    /\ UNCHANGED <<chunk_size, temp_dir, op, l_start_frame, l_end_frame,
                   l_name, cmdLocals, callLocals, pre>>

\* Lines 180-196: one iteration of the loop; the export of the chunk may
\* raise, and the exception leaves the method.
ExportPyChunk ==
    /\ UNCHANGED conc
    /\ pc = "py_loop"
    /\ MoreChunks(end_frame, l_end_frame)
    /\ chunk_size > 0 \/ Len(tasks) < MaxTasks
    /\ start_frame' = end_frame + 1
    /\ end_frame' = ChunkEnd(start_frame', chunk_size, l_end_frame)
    /\ name' = ChunkName(l_name, start_frame', end_frame')
    /\ \E ok \in BOOLEAN :
        IF ok
        THEN /\ tasks' = Append(tasks, TaskExport(Copy(
                    [Self EXCEPT !.start_frame = start_frame',
                                 !.end_frame = end_frame',
                                 !.name = name'])))
             /\ UNCHANGED <<pc, exc>>
        ELSE /\ pc' = "raised"
             /\ exc' = "ExportError"
             /\ UNCHANGED tasks
    /\ UNCHANGED <<chunk_size, temp_dir, op, l_start_frame, l_end_frame,
                   l_name, cmdLocals, callLocals, pre>>

ExportPyEndKeepsName ==
    /\ UNCHANGED conc
    /\ pc = "py_loop"
    /\ ~MoreChunks(end_frame, l_end_frame)
    /\ start_frame' = l_start_frame
    /\ end_frame' = l_end_frame
    /\ pc' = "returned"
    /\ UNCHANGED <<name, chunk_size, temp_dir, op, exc, pyLocals, cmdLocals,
                   callLocals, pre>>

\* Lines 198-201: the loop is over; restore the instance and return tasks.
ExportPyEnd ==
    /\ UNCHANGED conc
    /\ pc = "py_loop"
    /\ ~MoreChunks(end_frame, l_end_frame)
    /\ start_frame' = l_start_frame
    /\ end_frame' = l_end_frame
    /\ name' = l_name
    /\ pc' = "returned"
    /\ UNCHANGED <<chunk_size, temp_dir, op, exc, pyLocals, cmdLocals,
                   callLocals, pre>>

(***************************************************************************)
(* The caller takes the result; the instance is idle again.                *)
(***************************************************************************)
Finish ==
    /\ UNCHANGED conc
    /\ pc = "returned"
    /\ pc' = "idle"
    /\ op' = "none"
    /\ exc' = NoExc
    /\ l_start_frame' = 0 /\ l_end_frame' = 0 /\ l_name' = "" /\ tasks' = <<>>
    /\ command' = <<>> /\ n_commands' = 0 /\ deadline' = FALSE
    /\ arg_temp_dir' = NoneValue
    /\ frame' = 0 /\ success' = 0 /\ failed_frames' = <<>> /\ result' = 0
    /\ setup_done' = FALSE /\ ran' = <<>> /\ outcomes' = <<>>
    /\ pre' = Self
    /\ UNCHANGED fields

Next ==
    \/ Validate
    \/ CallBegin
    \/ CallFrame
    \/ CallEnd
    \/ ExportToCommandLine
    \/ ExportPyBegin
    \/ ExportPyChunk
    \/ ExportPyEnd
    \/ Finish

Spec == Init /\ [][Next]_vars

(***************************************************************************)
(* The scenario of the tests: TestSequence(name="Task1", start_frame=10,   *)
(* end_frame=25, ...) with chunk_size at its default of 8 or below,        *)
(* exported and validated (running its 16 frames is left to Spec).         *)
(***************************************************************************)
ScenarioStartFrame == 10
ScenarioEndFrame == 25
DefaultChunkSize == 8

ScenarioInit ==
    /\ start_frame = ScenarioStartFrame
    /\ end_frame = ScenarioEndFrame
    /\ chunk_size \in 0..DefaultChunkSize
    /\ name = TaskName
    /\ temp_dir \in TempDirs
    /\ pc = "idle"
    /\ op = "none"
    /\ exc = NoExc
    /\ l_start_frame = 0 /\ l_end_frame = 0 /\ l_name = "" /\ tasks = <<>>
    /\ command = <<>> /\ n_commands = 0 /\ deadline = FALSE
    /\ arg_temp_dir = NoneValue
    /\ frame = 0 /\ success = 0 /\ failed_frames = <<>> /\ result = 0
    /\ setup_done = FALSE /\ ran = <<>> /\ outcomes = <<>>
    /\ pre = Self
    /\ ConcIdle

ScenarioNext ==
    \/ Validate
    \/ ExportToCommandLine
    \/ ExportPyBegin
    \/ ExportPyChunk
    \/ ExportPyEnd
    \/ Finish

ScenarioSpec == ScenarioInit /\ [][ScenarioNext]_vars

(***************************************************************************)
(* Two threads calling export_to_python_script on the one instance, with   *)
(* chunk_size > 0 and a valid range; an export of a chunk may raise, which  *)
(* ends that call before lines 198-200.  One step is                       *)
(* one access to an attribute of the instance: a statement of lines        *)
(* 174-201 that reads or writes the instance more than once (182, 183,     *)
(* 186) is as many steps, and the other thread may run between them.  The  *)
(* instance's fields are shared, the locals are each caller's own.         *)
(***************************************************************************)
ConcMaxFrame == 2      \* largest frame number of the shared instance
ConcMaxChunk == 2      \* largest chunk_size of the shared instance
MaxSwitches == 2       \* most preemptions of a caller that has not returned

\* Line 186: frame_str.
FrameStr(s, e) == ToString(s) \o "-" \o ToString(e)

\* Line 187: the name from the saved name and frame_str.
NameWith(n, frame_str) == n \o "_" \o frame_str

ConcInit ==
    /\ start_frame \in 0..ConcMaxFrame
    /\ end_frame \in start_frame..ConcMaxFrame
    /\ chunk_size \in 1..ConcMaxChunk
    /\ name = TaskName
    /\ temp_dir = NoneValue
    /\ pc = "idle"
    /\ op = "none"
    /\ exc = NoExc
    /\ l_start_frame = 0 /\ l_end_frame = 0 /\ l_name = "" /\ tasks = <<>>
    /\ command = <<>> /\ n_commands = 0 /\ deadline = FALSE
    /\ arg_temp_dir = NoneValue
    /\ frame = 0 /\ success = 0 /\ failed_frames = <<>> /\ result = 0
    /\ setup_done = FALSE /\ ran = <<>> /\ outcomes = <<>>
    /\ pre = Self
    /\ ConcIdle

\* What a step of a concurrent caller never touches.
ConcFrame ==
    UNCHANGED <<chunk_size, temp_dir, pc, op, exc, pyLocals, cmdLocals,
                callLocals, pre>>

\* A call that has returned or raised.
Ended(c) == c_pc[c] \in {"done", "raised"}

\* Scheduling caller c takes the processor from a caller whose call has not
\* ended.
Preempts(c) == running \notin {0, c} /\ ~Ended(running)

\* Caller c is scheduled, moves to line l and has the locals loc.
Goto(c, l, loc) ==
    /\ Preempts(c) => switches < MaxSwitches
    /\ running' = c
    /\ switches' = IF Preempts(c) THEN switches + 1 ELSE switches
    /\ c_pc' = [c_pc EXCEPT ![c] = l]
    /\ c_local' = [c_local EXCEPT ![c] = loc]

\* Lines 171-174: the call begins; chunk_size is not 0; tasks = [].
Enter(c) ==
    /\ c_pc[c] = "idle"
    /\ ~NoChunking(chunk_size)
    /\ Goto(c, "l175", NoLocals)
    /\ overlapped' = (overlapped
                      \/ \E d \in Callers \ {c} :
                            c_pc[d] # "idle" /\ ~Ended(d))
    /\ UNCHANGED <<start_frame, end_frame, name>>
    /\ ConcFrame

\* Line 175: start_frame = self.start_frame
L175(c) ==
    /\ c_pc[c] = "l175"
    /\ Goto(c, "l176", [c_local[c] EXCEPT !.start_frame = start_frame])
    /\ UNCHANGED <<start_frame, end_frame, name, overlapped>>
    /\ ConcFrame

\* Line 176: end_frame = self.end_frame
L176(c) ==
    /\ c_pc[c] = "l176"
    /\ Goto(c, "l177", [c_local[c] EXCEPT !.end_frame = end_frame])
    /\ UNCHANGED <<start_frame, end_frame, name, overlapped>>
    /\ ConcFrame

\* Line 177: name = self.name
L177(c) ==
    /\ c_pc[c] = "l177"
    /\ Goto(c, "l179", [c_local[c] EXCEPT !.name = name])
    /\ UNCHANGED <<start_frame, end_frame, name, overlapped>>
    /\ ConcFrame

\* Line 179: self.end_frame = start_frame - 1
L179(c) ==
    /\ c_pc[c] = "l179"
    /\ end_frame' = c_local[c].start_frame - 1
    /\ Goto(c, "l180", c_local[c])
    /\ UNCHANGED <<start_frame, name, overlapped>>
    /\ ConcFrame

\* Line 180: while self.end_frame < end_frame
L180(c) ==
    /\ c_pc[c] = "l180"
    /\ Goto(c, IF MoreChunks(end_frame, c_local[c].end_frame)
               THEN "l182" ELSE "l198", c_local[c])
    /\ UNCHANGED <<start_frame, end_frame, name, overlapped>>
    /\ ConcFrame

\* Line 182, self.start_frame = self.end_frame + 1: the read of
\* self.end_frame.
L182ReadEnd(c) ==
    /\ c_pc[c] = "l182"
    /\ Goto(c, "l182w", [c_local[c] EXCEPT !.r_end = end_frame])
    /\ UNCHANGED <<start_frame, end_frame, name, overlapped>>
    /\ ConcFrame

\* Line 182: the write of self.start_frame, from the value read.
L182(c) ==
    /\ c_pc[c] = "l182w"
    /\ start_frame' = c_local[c].r_end + 1
    /\ Goto(c, "l183", [c_local[c] EXCEPT !.r_end = 0])
    /\ UNCHANGED <<end_frame, name, overlapped>>
    /\ ConcFrame

\* Line 183, self.end_frame = min(self.start_frame + self.chunk_size - 1,
\* end_frame): the read of self.start_frame.
L183ReadStart(c) ==
    /\ c_pc[c] = "l183"
    /\ Goto(c, "l183c", [c_local[c] EXCEPT !.r_start = start_frame])
    /\ UNCHANGED <<start_frame, end_frame, name, overlapped>>
    /\ ConcFrame

\* Line 183: the read of self.chunk_size.
L183ReadChunk(c) ==
    /\ c_pc[c] = "l183c"
    /\ Goto(c, "l183w", [c_local[c] EXCEPT !.r_chunk = chunk_size])
    /\ UNCHANGED <<start_frame, end_frame, name, overlapped>>
    /\ ConcFrame

\* Line 183: the write of self.end_frame, from the values read.
L183(c) ==
    /\ c_pc[c] = "l183w"
    /\ end_frame' = ChunkEnd(c_local[c].r_start, c_local[c].r_chunk,
                             c_local[c].end_frame)
    /\ Goto(c, "l186", [c_local[c] EXCEPT !.r_start = 0, !.r_chunk = 0])
    /\ UNCHANGED <<start_frame, name, overlapped>>
    /\ ConcFrame

\* Line 186, frame_str = "{}-{}".format(self.start_frame, self.end_frame):
\* the read of self.start_frame.
L186ReadStart(c) ==
    /\ c_pc[c] = "l186"
    /\ Goto(c, "l186e", [c_local[c] EXCEPT !.r_start = start_frame])
    /\ UNCHANGED <<start_frame, end_frame, name, overlapped>>
    /\ ConcFrame

\* Line 186: the read of self.end_frame, and frame_str from the two values.
L186(c) ==
    /\ c_pc[c] = "l186e"
    /\ Goto(c, "l187",
            [c_local[c] EXCEPT
                !.frame_str = FrameStr(c_local[c].r_start, end_frame),
                !.r_start = 0])
    /\ UNCHANGED <<start_frame, end_frame, name, overlapped>>
    /\ ConcFrame

\* Line 187: self.name = "{}_{}".format(name, frame_str)
L187(c) ==
    /\ c_pc[c] = "l187"
    /\ name' = NameWith(c_local[c].name, c_local[c].frame_str)
    /\ Goto(c, "l189", c_local[c])
    /\ UNCHANGED <<start_frame, end_frame, overlapped>>
    /\ ConcFrame

\* Lines 189-196: the copy of the instance (Task.copy, taken as one step)
\* is exported and appended; when the export raises, the call ends here.
L189(c) ==
    /\ c_pc[c] = "l189"
    /\ \E ok \in BOOLEAN :
        IF ok
        THEN Goto(c, "l180",
                  [c_local[c] EXCEPT
                      !.tasks = Append(c_local[c].tasks, TaskExport(Copy(Self)))])
        ELSE Goto(c, "raised", c_local[c])
    /\ UNCHANGED <<start_frame, end_frame, name, overlapped>>
    /\ ConcFrame

\* Line 198: self.start_frame = start_frame
L198(c) ==
    /\ c_pc[c] = "l198"
    /\ start_frame' = c_local[c].start_frame
    /\ Goto(c, "l199", c_local[c])
    /\ UNCHANGED <<end_frame, name, overlapped>>
    /\ ConcFrame

\* Line 199: self.end_frame = end_frame
L199(c) ==
    /\ c_pc[c] = "l199"
    /\ end_frame' = c_local[c].end_frame
    /\ Goto(c, "l200", c_local[c])
    /\ UNCHANGED <<start_frame, name, overlapped>>
    /\ ConcFrame

L200KeepsName(c) ==
    /\ c_pc[c] = "l200"
    /\ Goto(c, "done", c_local[c])
    /\ UNCHANGED <<start_frame, end_frame, name, overlapped>>
    /\ ConcFrame

\* Lines 200-201: self.name = name; return tasks
L200(c) ==
    /\ c_pc[c] = "l200"
    /\ name' = c_local[c].name
    /\ Goto(c, "done", c_local[c])
    /\ UNCHANGED <<start_frame, end_frame, overlapped>>
    /\ ConcFrame

ConcNext ==
    \E c \in Callers :
        \/ Enter(c)
        \/ L175(c)
        \/ L176(c)
        \/ L177(c)
        \/ L179(c)
        \/ L180(c)
        \/ L182ReadEnd(c)
        \/ L182(c)
        \/ L183ReadStart(c)
        \/ L183ReadChunk(c)
        \/ L183(c)
        \/ L186ReadStart(c)
        \/ L186(c)
        \/ L187(c)
        \/ L189(c)
        \/ L198(c)
        \/ L199(c)
        \/ L200(c)

ConcSpec == ConcInit /\ [][ConcNext]_vars

\* A method that has been entered keeps executing: the chunk loop of
\* export_to_python_script takes its next iteration, or leaves.
LiveSpec ==
    /\ Init
    /\ [][Next]_vars
    /\ WF_vars(ExportPyChunk)
    /\ WF_vars(ExportPyEnd)

(***************************************************************************)
(* Properties of export_to_python_script.                                  *)
(***************************************************************************)

\* export_to_python_script has returned the list of its chunks.
PyReturned == pc = "returned" /\ op = "export_py"

\* The call was made with chunk_size > 0 and 0 <= start_frame <= end_frame.
PyValidCall ==
    /\ pre.chunk_size > 0
    /\ 0 <= pre.start_frame
    /\ pre.start_frame <= pre.end_frame

\* C1: with chunk_size > 0 and 0 <= start_frame <= end_frame the chunks
\* partition the range: each chunk lies in [start_frame, end_frame] and has
\* at most chunk_size frames, the first starts at start_frame, each next one
\* starts right after the previous one's end, and the last ends at end_frame.
C1_ChunksPartitionRange ==
    (PyReturned /\ PyValidCall) =>
        /\ Len(tasks) >= 1
        /\ \A i \in 1..Len(tasks) :
            /\ pre.start_frame <= tasks[i].start_frame
            /\ tasks[i].start_frame <= tasks[i].end_frame
            /\ tasks[i].end_frame <= pre.end_frame
            /\ tasks[i].end_frame - tasks[i].start_frame + 1 <= pre.chunk_size
        /\ tasks[1].start_frame = pre.start_frame
        /\ \A i \in 1..(Len(tasks) - 1) :
            tasks[i + 1].start_frame = tasks[i].end_frame + 1
        /\ tasks[Len(tasks)].end_frame = pre.end_frame

\* A range cut into several chunks, the last one shorter than chunk_size.
C1_Witness ==
    /\ PyReturned /\ PyValidCall
    /\ Len(tasks) >= 2
    /\ tasks[Len(tasks)].end_frame - tasks[Len(tasks)].start_frame + 1
         < pre.chunk_size

\* C2: with chunk_size > 0 and 0 <= start_frame <= end_frame the number of
\* chunks is ceil((end_frame - start_frame + 1) / chunk_size); a range of
\* one frame gives one chunk of one frame.
C2_ChunkCount ==
    (PyReturned /\ PyValidCall) =>
        /\ Len(tasks) = CeilDiv(pre.end_frame - pre.start_frame + 1,
                                pre.chunk_size)
        /\ pre.start_frame = pre.end_frame =>
            /\ Len(tasks) = 1
            /\ tasks[1].start_frame = pre.start_frame
            /\ tasks[1].end_frame = pre.start_frame

\* Three chunks from a range that chunk_size does not divide.
C2_Witness ==
    /\ PyReturned /\ PyValidCall
    /\ Len(tasks) = 3
    /\ (pre.end_frame - pre.start_frame + 1) % pre.chunk_size # 0

\* C3 as stated: with chunk_size > 0 and start_frame <= end_frame the number
\* of exported tasks is ceil((end_frame - start_frame) / chunk_size), the
\* count the test expects.
C3_TestCount ==
    (PyReturned /\ pre.chunk_size > 0 /\ pre.start_frame <= pre.end_frame) =>
        Len(tasks) = CeilDiv(pre.end_frame - pre.start_frame, pre.chunk_size)

\* C3 amended: the number of exported tasks is the test's count
\* ceil((end_frame - start_frame) / chunk_size) when chunk_size does not
\* divide end_frame - start_frame, and one more than it when it does.
C3_TestCountAmended ==
    (PyReturned /\ pre.chunk_size > 0 /\ pre.start_frame <= pre.end_frame) =>
        Len(tasks) =
            CeilDiv(pre.end_frame - pre.start_frame, pre.chunk_size)
            + (IF (pre.end_frame - pre.start_frame) % pre.chunk_size = 0
               THEN 1 ELSE 0)

\* chunk_size divides end_frame - start_frame > 0: one chunk more than the
\* test counts.
C3_Witness ==
    /\ PyReturned
    /\ pre.chunk_size > 1
    /\ pre.start_frame < pre.end_frame
    /\ (pre.end_frame - pre.start_frame) % pre.chunk_size = 0
    /\ Len(tasks) =
         CeilDiv(pre.end_frame - pre.start_frame, pre.chunk_size) + 1

\* C4: when export_to_python_script returns, for any chunk_size >= 0 and any
\* frame range, the instance's start_frame, end_frame and name are what they
\* were before the call.
C4_ParentRestored ==
    (PyReturned /\ pre.chunk_size >= 0) =>
        /\ start_frame = pre.start_frame
        /\ end_frame = pre.end_frame
        /\ name = pre.name

\* A chunked export returned: the instance was overwritten once per chunk.
C4_Witness ==
    /\ PyReturned
    /\ Len(tasks) >= 2
    /\ tasks[Len(tasks)].name # pre.name
    /\ tasks[1].end_frame # pre.end_frame
    /\ name = pre.name

(***************************************************************************)
(* Properties of export_to_command_line.                                   *)
(***************************************************************************)

CmdReturned == pc = "returned" /\ op = "export_cmd"

\* The word that follows flag in the command cmd.
HasArg(cmd, flag) == \E i \in 1..(Len(cmd) - 1) : cmd[i] = flag
ArgValue(cmd, flag) ==
    cmd[(CHOOSE i \in 1..(Len(cmd) - 1) : cmd[i] = flag) + 1]

\* C5: with deadline=False and chunk_size > 0, export_to_command_line
\* chunks [start_frame, end_frame] and returns one command per chunk.
C5_OneCommandPerChunk ==
    (/\ CmdReturned /\ ~deadline
     /\ pre.chunk_size > 0
     /\ 0 <= pre.start_frame /\ pre.start_frame <= pre.end_frame) =>
        n_commands = CeilDiv(pre.end_frame - pre.start_frame + 1,
                             pre.chunk_size)

\* C6: with deadline=True, export_to_command_line returns exactly one
\* command, whatever chunk_size and the frame range are; the value it gives
\* for start_frame is the token <STARTFRAME> and for end_frame the token
\* <ENDFRAME> (each written as repr writes a string, in quotes), and not the
\* instance's frame numbers.
C6_PlaceholderCommand ==
    (CmdReturned /\ deadline) =>
        /\ n_commands = 1
        /\ HasArg(command, "--start_frame")
        /\ HasArg(command, "--end_frame")
        /\ ArgValue(command, "--start_frame") = ReprStr("<STARTFRAME>")
        /\ ArgValue(command, "--end_frame") = ReprStr("<ENDFRAME>")
        /\ ArgValue(command, "--start_frame") # ReprInt(start_frame)
        /\ ArgValue(command, "--end_frame") # ReprInt(end_frame)

\* A placeholder export of a range longer than its positive chunk_size.
C6_Witness ==
    /\ CmdReturned /\ deadline
    /\ chunk_size > 0
    /\ end_frame - start_frame + 1 > chunk_size
    /\ n_commands = 1
    /\ ArgValue(command, "--chunk_size") = ReprInt(chunk_size)

(***************************************************************************)
(* Properties of validate.                                                 *)
(***************************************************************************)

ValidateDone == op = "validate" /\ pc \in {"returned", "raised"}

\* C7: validate() raises TaskValidationException, and nothing else, when
\* chunk_size < 0, when end_frame < start_frame, and when start_frame < 0 or
\* end_frame < 0; it returns exactly when chunk_size >= 0 and
\* 0 <= start_frame <= end_frame.
C7_ValidateRaisesValidationException ==
    ValidateDone =>
        LET valid == /\ chunk_size >= 0
                     /\ 0 <= start_frame
                     /\ start_frame <= end_frame
        IN /\ valid <=> pc = "returned"
           /\ ~valid => exc = "TaskValidationException"

(***************************************************************************)
(* Properties of __call__.                                                 *)
(***************************************************************************)

CallReturned == pc = "returned" /\ op = "call"

\* run(f) was invoked and returned 0.
RanOk(f) ==
    \E i \in 1..Len(ran) :
        ran[i] = f /\ ~outcomes[i].raised /\ outcomes[i].value = 0

\* Some run call raised.
SomeRunRaised == \E i \in 1..Len(outcomes) : outcomes[i].raised

\* The i-th run call failed: it raised, or returned a non-zero status.
FailedAt(i) == outcomes[i].raised \/ outcomes[i].value # 0

\* C8: __call__ returns 0 if and only if run(frame) returned 0 for every
\* frame of [start_frame, end_frame]; when no run call raises, failed_frames
\* is exactly the frames run returned non-zero for.
C8_ResultAndFailedFrames ==
    CallReturned =>
        /\ result = 0 <=> \A f \in start_frame..end_frame : RanOk(f)
        /\ ~SomeRunRaised =>
            /\ {failed_frames[j] : j \in 1..Len(failed_frames)}
                 = {ran[i] : i \in {k \in 1..Len(ran) : outcomes[k].value # 0}}
            /\ Len(failed_frames)
                 = Cardinality({k \in 1..Len(ran) : outcomes[k].value # 0})

\* Two frames failed with different statuses among frames that succeeded.
C8_Witness ==
    /\ CallReturned
    /\ ~SomeRunRaised
    /\ Len(failed_frames) = 2
    /\ Len(ran) >= 4
    /\ \E i, j \in 1..Len(ran) : outcomes[i].value = 1 /\ outcomes[j].value = 2
    /\ result # 0

\* C9 as stated: a failure at one frame does not stop the loop; run is still
\* invoked for every later frame up to end_frame, and the result is a
\* failure.
C9_FailureDoesNotHalt ==
    CallReturned =>
        \A i \in 1..Len(ran) :
            FailedAt(i) =>
                /\ \A f \in (ran[i] + 1)..end_frame :
                       \E j \in 1..Len(ran) : ran[j] = f
                /\ result # 0

\* C9 amended: a non-zero status at one frame does not stop the loop: when
\* no run call raises, run is still invoked for every later frame up to
\* end_frame; a run call that raises ends the loop at its frame, and no
\* later frame is run; in both cases the result is a failure.
C9_FailureDoesNotHaltAmended ==
    CallReturned =>
        \A i \in 1..Len(ran) :
            FailedAt(i) =>
                /\ result # 0
                /\ ~SomeRunRaised =>
                       \A f \in (ran[i] + 1)..end_frame :
                           \E j \in 1..Len(ran) : ran[j] = f
                /\ outcomes[i].raised => i = Len(ran)

\* A non-zero status two frames before the end, with no exception: the two
\* later frames were run.
C9_Witness ==
    /\ CallReturned
    /\ ~SomeRunRaised
    /\ \E i \in 1..Len(ran) :
        /\ outcomes[i].value # 0
        /\ ran[i] + 2 <= end_frame
        /\ Len(ran) >= i + 2
    /\ result # 0

\* C10: an exception raised by run(frame) does not leave __call__: it is
\* caught and __call__ returns 1.
C10_RunExceptionCaught ==
    op = "call" =>
        /\ pc # "raised"
        /\ SomeRunRaised => (pc = "returned" /\ result = 1)

\* run raised at a frame after two frames that returned 0.
C10_Witness ==
    /\ CallReturned
    /\ Len(ran) >= 3
    /\ outcomes[Len(ran)].raised
    /\ success = 0
    /\ result = 1

\* The frames first..last in ascending order.
FrameRange(first, last) ==
    [i \in 1..(IF last >= first THEN last - first + 1 ELSE 0) |-> first + i - 1]

\* C11: __call__ calls setup() before any run call; every run call is for the
\* next frame of [start_frame, end_frame] in ascending order, and when no run
\* call raises, run has been invoked exactly once for each frame of the range
\* and for no other frame.
C11_SetupThenEachFrameOnce ==
    op = "call" =>
        /\ Len(ran) > 0 => setup_done
        /\ \A i \in 1..Len(ran) : ran[i] = pre.start_frame + i - 1
        /\ Len(ran) <= Len(FrameRange(pre.start_frame, pre.end_frame))
        /\ (pc = "returned" /\ ~SomeRunRaised) =>
               ran = FrameRange(pre.start_frame, pre.end_frame)

\* A call over four frames or more, some of them failing, none raising.
C11_Witness ==
    /\ CallReturned
    /\ ~SomeRunRaised
    /\ setup_done
    /\ Len(ran) >= 4
    /\ ran[1] = start_frame
    /\ ran[Len(ran)] = end_frame
    /\ Len(failed_frames) >= 1

\* C12: with chunk_size == 0, export_to_python_script does no chunking: it
\* never enters the chunk loop, and when the generic export succeeds it
\* returns one artifact for the whole range [start_frame, end_frame] under
\* the task's own name, leaving start_frame, end_frame and name unchanged.
C12_NoChunkingOneArtifact ==
    (op = "export_py" /\ pre.chunk_size = 0) =>
        /\ pc # "py_loop"
        /\ start_frame = pre.start_frame
        /\ end_frame = pre.end_frame
        /\ name = pre.name
        /\ pc = "returned" =>
            /\ Len(tasks) = 1
            /\ tasks[1].start_frame = pre.start_frame
            /\ tasks[1].end_frame = pre.end_frame
            /\ tasks[1].name = pre.name

\* An unchunked export of a range of four frames or more.
C12_Witness ==
    /\ PyReturned
    /\ pre.chunk_size = 0
    /\ pre.end_frame - pre.start_frame + 1 >= 4
    /\ Len(tasks) = 1
    /\ tasks[1].end_frame - tasks[1].start_frame + 1 >= 4

\* The instance the operation began on violates a validated invariant.
PreInvalid ==
    \/ pre.chunk_size < 0
    \/ pre.end_frame < pre.start_frame
    \/ pre.start_frame < 0
    \/ pre.end_frame < 0

\* C13: on an instance with chunk_size < 0, end_frame < start_frame or a
\* negative bound, export_to_python_script, export_to_command_line and
\* __call__ produce no artifact, run no frame and do not return normally.
C13_ValidationBlocks ==
    (op \in {"export_py", "export_cmd", "call"} /\ PreInvalid) =>
        /\ pc # "returned"
        /\ tasks = <<>>
        /\ n_commands = 0
        /\ ran = <<>>

\* C17 as stated: after export_to_command_line returns, every field of the
\* instance (start_frame, end_frame, chunk_size, name, temp_dir) is what it
\* was before the call, whatever deadline and the temp_dir argument are.
C17_CommandLineNoSideEffect ==
    CmdReturned => Self = pre

\* C17 amended: after export_to_command_line returns, start_frame,
\* end_frame, chunk_size and name are what they were before the call; so is
\* temp_dir when it was set before the call, and when it was not set (None
\* or the empty string) it is the temp_dir argument.
C17_CommandLineSetsUnsetTempDir ==
    CmdReturned =>
        /\ start_frame = pre.start_frame
        /\ end_frame = pre.end_frame
        /\ chunk_size = pre.chunk_size
        /\ name = pre.name
        /\ temp_dir = (IF Falsy(pre.temp_dir)
                       THEN arg_temp_dir ELSE pre.temp_dir)

\* A call that passes a directory other than the one the instance has.
C17_Witness ==
    /\ CmdReturned
    /\ pre.temp_dir # NoneValue
    /\ arg_temp_dir # NoneValue
    /\ arg_temp_dir # pre.temp_dir
    /\ temp_dir = pre.temp_dir
    /\ ArgValue(command, "--temp_dir") = ReprStr(pre.temp_dir)

\* The caller is inside the chunk loop of a call made with chunk_size > 0.
InChunkLoop == pc = "py_loop" /\ op = "export_py" /\ chunk_size > 0

\* One step of the chunk loop: an iteration moves the cursor (end_frame) up
\* by at least 1 and not beyond the original end_frame; the loop is left
\* with the cursor at the original end_frame, or after no iteration at all
\* when the range was empty, and never after more iterations than the range
\* has frames.
ChunkLoopStep ==
    InChunkLoop =>
        /\ pc' # "returned" =>
            /\ end_frame' >= end_frame + 1
            /\ end_frame' <= l_end_frame
        /\ pc' = "returned" =>
            /\ \/ end_frame = l_end_frame
               \/ tasks = <<>> /\ l_start_frame > l_end_frame
            /\ Len(tasks) <= Len(FrameRange(l_start_frame, l_end_frame))

\* C15: with chunk_size > 0 the chunk loop terminates: every iteration
\* raises the cursor by at least 1 without passing the original end_frame,
\* and the loop is eventually left, with the cursor equal to the original
\* end_frame or, when start_frame > end_frame, after zero iterations.
C15_ChunkLoopTerminates ==
    /\ [][ChunkLoopStep]_vars
    /\ InChunkLoop ~> pc # "py_loop"

\* The loop was left after three iterations or more.
C15_Witness ==
    /\ PyReturned
    /\ pre.chunk_size > 0
    /\ Len(tasks) >= 3
    /\ tasks[Len(tasks)].end_frame = pre.end_frame

\* C16: with chunk_size > 0 the chunks are produced in strictly ascending
\* frame order, each starting after the end of the one before it, and each
\* is named by the instance's original name followed by "_", the chunk's
\* start, "-" and the chunk's end, so no two chunks have the same name.
C16_AscendingOrderAndNames ==
    (op = "export_py" /\ pre.chunk_size > 0) =>
        /\ \A i \in 2..Len(tasks) :
               tasks[i].start_frame > tasks[i - 1].end_frame
        /\ \A i \in 1..Len(tasks) :
               tasks[i].name =
                   pre.name \o "_" \o ToString(tasks[i].start_frame)
                            \o "-" \o ToString(tasks[i].end_frame)
        /\ \A i, j \in 1..Len(tasks) :
               i # j => tasks[i].name # tasks[j].name

\* Three chunks or more, the last one named after its own bounds.
C16_Witness ==
    /\ PyReturned
    /\ pre.chunk_size > 0
    /\ Len(tasks) >= 3
    /\ tasks[3].name = pre.name \o "_" \o ToString(tasks[3].start_frame)
                                \o "-" \o ToString(tasks[3].end_frame)
    /\ tasks[3].name # tasks[2].name

\* C19: when the export of a chunk raises inside export_to_python_script,
\* the exception reaches the caller and the instance's start_frame,
\* end_frame and name are what they were before the call.
C19_UnchangedOnExportError ==
    (op = "export_py" /\ pc = "raised") =>
        /\ exc # NoExc
        /\ start_frame = pre.start_frame
        /\ end_frame = pre.end_frame
        /\ name = pre.name

\* The flags export_to_command_line writes before the attributes' values.
Flags == {"--" \o task_attributes[k] : k \in 1..Len(task_attributes)}

\* C14 as stated: in placeholder mode the export of the scenario's task
\* (start_frame=10, end_frame=25) is one command that ends with
\* "<STARTFRAME> <ENDFRAME>": its last word is <ENDFRAME> and the word
\* before it is <STARTFRAME>.
C14_EndsWithBareTokens ==
    (CmdReturned /\ deadline) =>
        /\ n_commands = 1
        /\ Len(command) >= 2
        /\ command[Len(command) - 1] = "<STARTFRAME>"
        /\ command[Len(command)] = "<ENDFRAME>"

\* C14 amended: in placeholder mode the export of the scenario's task is one
\* command in which each token is the value of its own flag, written in
\* quotes: "--start_frame '<STARTFRAME>'" and "--end_frame '<ENDFRAME>'";
\* neither token occurs as a bare word, and the command ends with a flag
\* and that flag's value.
C14_TokensQuotedAfterFlags ==
    (CmdReturned /\ deadline) =>
        /\ n_commands = 1
        /\ \E i \in 1..(Len(command) - 1) :
            /\ command[i] = "--start_frame"
            /\ command[i + 1] = "'<STARTFRAME>'"
        /\ \E i \in 1..(Len(command) - 1) :
            /\ command[i] = "--end_frame"
            /\ command[i + 1] = "'<ENDFRAME>'"
        /\ \A i \in 1..Len(command) :
            command[i] \notin {"<STARTFRAME>", "<ENDFRAME>"}
        /\ command[Len(command) - 1] \in Flags

\* The test's task, exported in placeholder mode with its default chunk_size.
C14_Witness ==
    /\ CmdReturned /\ deadline
    /\ start_frame = ScenarioStartFrame
    /\ end_frame = ScenarioEndFrame
    /\ chunk_size = DefaultChunkSize
    /\ temp_dir = "./test_temp"
    /\ n_commands = 1
    /\ Len(command) = 15

(***************************************************************************)
(* Properties of concurrent calls of export_to_python_script.              *)
(***************************************************************************)

\* The bounds and name of the i-th chunk of the partition of the original
\* range.
PartitionChunk(i) ==
    LET s == pre.start_frame + (i - 1) * pre.chunk_size
        e == Min(s + pre.chunk_size - 1, pre.end_frame)
    IN [start_frame |-> s, end_frame |-> e,
        name |-> pre.name \o "_" \o ToString(s) \o "-" \o ToString(e)]

\* Caller c returned the partition of the original range.
ReturnedPartition(c) ==
    /\ Len(c_local[c].tasks)
         = CeilDiv(pre.end_frame - pre.start_frame + 1, pre.chunk_size)
    /\ \A i \in 1..Len(c_local[c].tasks) :
        /\ c_local[c].tasks[i].start_frame = PartitionChunk(i).start_frame
        /\ c_local[c].tasks[i].end_frame = PartitionChunk(i).end_frame
        /\ c_local[c].tasks[i].name = PartitionChunk(i).name

\* The instance has its original start_frame, end_frame and name.
ParentIntact ==
    /\ start_frame = pre.start_frame
    /\ end_frame = pre.end_frame
    /\ name = pre.name

AllDone == \A c \in Callers : c_pc[c] = "done"

\* C18: two calls of export_to_python_script on one instance (chunk_size >
\* 0) that do not overlap and in which no export raises each return the
\* partition of the original range and leave the instance's start_frame,
\* end_frame and name unchanged; calls that interleave can end otherwise
\* (C18_Witness is such an end).
C18_SerializedCallsAreSafe ==
    (~overlapped /\ \A c \in Callers : c_pc[c] # "raised") =>
        /\ \A c \in Callers : c_pc[c] = "done" => ReturnedPartition(c)
        /\ (\A c \in Callers : c_pc[c] \in {"idle", "done"}) => ParentIntact

\* Both interleaved calls have returned, and a call returned something other
\* than the partition or the instance is not what it was.
C18_Witness ==
    /\ AllDone
    /\ overlapped
    /\ \/ \E c \in Callers : ~ReturnedPartition(c)
       \/ ~ParentIntact
====
